---- MODULE Spec2Model ----
(***************************************************************************)
(* A model of the hyperliquid-go utils package: the float -> decimal wire  *)
(* conversion with its process-wide cache, the action hasher, the signing  *)
(* flows (L1, user-signed, multi-sig) and the order shaping helpers.       *)
(*                                                                         *)
(* Floats.  A float64 is modelled as an exact decimal with 13 fractional   *)
(* digits: [neg, whole, hi, lo] stands for                                 *)
(*     (-1)^neg * (whole + hi * 10^-8 + lo * 10^-13)                       *)
(* so that the 8 and 6 place roundings of the code and its 1e-12           *)
(* threshold (10 units of 10^-13) are all computed on integers that fit    *)
(* the model checker's 32-bit arithmetic.                                  *)
(***************************************************************************)
EXTENDS Integers, Sequences, FiniteSets, TLC

VARIABLES
    cache,      \* decimalCache.values: float key -> decimal
    preloaded,  \* entries of decimalCache.values whose keys are outside Floats
    readers,    \* goroutines holding decimalCache's read lock
    writer,     \* the goroutines holding decimalCache's write lock (at most one)
    pc,         \* per goroutine: its position inside FloatToDecimal
    arg,        \* per goroutine: the arguments (x, places) of its call
    loc,        \* per goroutine: the locals d, ok of its call
    accessLog,  \* every kind of access made to decimalCache.values, with the lock held
    call,       \* the API call that has just returned: its name and arguments
    ret,        \* what that call returned
    signed,     \* the buffers handed to wallet.SignMessage during that call
    prevHash,   \* the arguments and result of the ActionHash call before this one,
                \* when no other API call was made in between
    heap        \* the maps in memory when that call returned: the caller's action map
                \* and the maps the call filled from it, each under its variable's name

cacheVars == <<cache, preloaded, readers, writer, pc, arg, loc, accessLog>>
callVars == <<call, ret, signed, prevHash, heap>>
vars == <<cache, preloaded, readers, writer, pc, arg, loc, accessLog, call, ret, signed, prevHash, heap>>

None == "none"

----------------------------------------------------------------------------
(* Program constants                                                        *)

\* PrecisionThreshold = 1e-12, in units of 10^-13
PrecisionThreshold == 10
DefaultDecimalPlaces == 8
USDDecimalPlaces == 6
\* the cap of FloatToDecimal's insert guard: len(decimalCache.values) < 1000
CacheCap == 1000
\* the magnitude limit of the same guard: math.Abs(x) < 1000000
CacheMaxAbs == 1000000

ErrPrecisionLoss == "ErrPrecisionLoss"
ErrInvalidOrderType == "ErrInvalidOrderType"
ErrInvalidAddress == "ErrInvalidAddress"
ErrInvalidSignatureChain == "ErrInvalidSignatureChain"

----------------------------------------------------------------------------
(* Bounds of the model                                                      *)

\* number of goroutines calling FloatToDecimal concurrently
NumThreads == 2
\* the cache starts with CacheCap - k entries left by earlier calls, k <= MaxFree
MaxFree == 2

Threads == 1..NumThreads

----------------------------------------------------------------------------
(* Floats and decimals                                                      *)

HiScale == 10 ^ DefaultDecimalPlaces
LoScale == 10 ^ 5

Float(neg, whole, hi, lo) == [neg |-> neg, whole |-> whole, hi |-> hi, lo |-> lo]

\* 1.5, 1.23456789, 1.234567891, -0.0000000000004, 0.1254, 1000000.5
Floats ==
    { Float(FALSE, 1, 50000000, 0),
      Float(FALSE, 1, 23456789, 0),
      Float(FALSE, 1, 23456789, 10000),
      Float(TRUE, 0, 0, 4),
      Float(FALSE, 0, 12540000, 0),
      Float(FALSE, 1000000, 50000000, 0) }

Places == {USDDecimalPlaces, DefaultDecimalPlaces}

IsZero(x) == x.whole = 0 /\ x.hi = 0 /\ x.lo = 0

\* Go's map key equality on float64: -0 and +0 are the same key
KeyOf(x) == IF IsZero(x) THEN [x EXCEPT !.neg = FALSE] ELSE x

\* math.Abs(x) < 1000000
AbsBelowMax(x) == x.whole < CacheMaxAbs

\* a Go (value, error) result; err is the sentinel errors.Is finds (or the kind
\* of a foreign error), at is the context the error text carries
Ok(v) == [ok |-> TRUE, val |-> v, err |-> None, at |-> None]
Err(e, at) == [ok |-> FALSE, val |-> None, err |-> e, at |-> at]

\* a decimal.Decimal: (-1)^neg * (whole + frac * 10^-places)
Decimal(neg, whole, frac, places) ==
    [neg |-> neg, whole |-> whole, frac |-> frac, places |-> places]

\* decimal.Decimal.Equal: numeric equality, whatever the exponents
DecimalEqual(a, b) ==
    /\ a.neg = b.neg
    /\ a.whole = b.whole
    /\ a.frac * 10 ^ (DefaultDecimalPlaces - a.places)
         = b.frac * 10 ^ (DefaultDecimalPlaces - b.places)

\* FloatToDecimal past the cache lookup: format with places digits, parse back,
\* compare against the threshold, drop the sign of a negative zero, build the decimal
Convert(x, places) ==
    LET drop == 10 ^ (DefaultDecimalPlaces - places)
        unit == drop * LoScale
        keep == x.hi \div drop
        tail == (x.hi % drop) * LoScale + x.lo
        \* strconv rounds the exact value to nearest, ties to even
        up == 2 * tail > unit \/ (2 * tail = unit /\ keep % 2 = 1)
        raised == IF up THEN keep + 1 ELSE keep
        carry == raised = 10 ^ places
        whole == IF carry THEN x.whole + 1 ELSE x.whole
        frac == IF carry THEN 0 ELSE raised
        diff == IF up THEN unit - tail ELSE tail
        zero == whole = 0 /\ frac = 0
        neg == x.neg /\ ~zero
    IN  IF diff >= PrecisionThreshold
        THEN Err(ErrPrecisionLoss, "FloatToDecimal")
        ELSE Ok(Decimal(neg, whole, frac, places))

\* the element of a one-element set; The({F(v) : v \in {e}}) is F of the value of e
The(S) == CHOOSE v \in S : TRUE

\* len(decimalCache.values)
CacheLen(c, n) == Cardinality(DOMAIN c) + n

\* the guard of the insert: len(decimalCache.values) < 1000 && math.Abs(x) < 1000000
MayInsert(c, n, x) == CacheLen(c, n) < CacheCap /\ AbsBelowMax(x)

\* decimalCache.values[x] = d
Insert(c, x, d) == [k \in DOMAIN c \cup {KeyOf(x)} |-> IF k = KeyOf(x) THEN d ELSE c[k]]

EmptyCache == [k \in {} |-> None]

\* FloatToDecimal run from entry to return with no other goroutine in between:
\* the value returned and the cache it leaves
FloatToDecimal(c, n, x, places) ==
    IF KeyOf(x) \in DOMAIN c
    THEN [ret |-> Ok(c[KeyOf(x)]), cache |-> c]
    ELSE The({IF ~r.ok THEN [ret |-> r, cache |-> c]
              ELSE IF MayInsert(c, n, x)
                   THEN [ret |-> r, cache |-> Insert(c, x, r.val)]
                   ELSE [ret |-> r, cache |-> c]
              : r \in {Convert(x, places)}})

----------------------------------------------------------------------------
(* FloatToDecimal, statement by statement, called from several goroutines   *)

NoLocals == [d |-> None, ok |-> FALSE, out |-> None]
NoArg == [x |-> None, places |-> 0]

\* the mode in which goroutine t holds decimalCache's lock
Held(t) == IF t \in writer THEN "write" ELSE IF t \in readers THEN "read" ELSE "none"

\* an access of goroutine t to decimalCache.values: what it does, the lock it
\* holds, and whether another goroutine is inside its write section meanwhile
Access(t, kind) ==
    [kind |-> kind, held |-> Held(t), writing |-> writer \ {t} # {}]

CallFloatToDecimal(t, x, places) ==
    /\ pc[t] = "idle"
    /\ pc' = [pc EXCEPT ![t] = "rlock"]
    /\ arg' = [arg EXCEPT ![t] = [x |-> x, places |-> places]]
    /\ loc' = [loc EXCEPT ![t] = NoLocals]
    /\ UNCHANGED <<cache, preloaded, readers, writer, accessLog, callVars>>

\* decimalCache.RLock()
RLock(t) ==
    /\ pc[t] = "rlock"
    /\ writer = {}
    /\ readers' = readers \cup {t}
    /\ pc' = [pc EXCEPT ![t] = "lookup"]
    /\ UNCHANGED <<cache, preloaded, writer, arg, loc, accessLog, callVars>>

\* d, ok := decimalCache.values[x]
Lookup(t) ==
    /\ pc[t] = "lookup"
    /\ LET k == KeyOf(arg[t].x)
           hit == k \in DOMAIN cache
       IN  loc' = [loc EXCEPT ![t].ok = hit, ![t].d = IF hit THEN cache[k] ELSE None]
    /\ accessLog' = accessLog \cup {Access(t, "lookup")}
    /\ pc' = [pc EXCEPT ![t] = "runlock"]
    /\ UNCHANGED <<cache, preloaded, readers, writer, arg, callVars>>

\* decimalCache.RUnlock(); if ok { return d, nil }
RUnlock(t) ==
    /\ pc[t] = "runlock"
    /\ readers' = readers \ {t}
    /\ IF loc[t].ok
       THEN /\ loc' = [loc EXCEPT ![t].out = Ok(loc[t].d)]
            /\ pc' = [pc EXCEPT ![t] = "done"]
       ELSE /\ loc' = loc
            /\ pc' = [pc EXCEPT ![t] = "convert"]
    /\ UNCHANGED <<cache, preloaded, writer, arg, accessLog, callVars>>

\* the conversion proper, with its two error returns
ConvertStep(t) ==
    /\ pc[t] = "convert"
    /\ LET r == Convert(arg[t].x, arg[t].places)
       IN  IF r.ok
           THEN /\ loc' = [loc EXCEPT ![t].d = r.val]
                /\ pc' = [pc EXCEPT ![t] = "check"]
           ELSE /\ loc' = [loc EXCEPT ![t].out = r]
                /\ pc' = [pc EXCEPT ![t] = "done"]
    /\ UNCHANGED <<cache, preloaded, readers, writer, arg, accessLog, callVars>>

\* if len(decimalCache.values) < 1000 && math.Abs(x) < 1000000
CheckLen(t) ==
    /\ pc[t] = "check"
    /\ accessLog' = accessLog \cup {Access(t, "len")}
    /\ IF MayInsert(cache, preloaded, arg[t].x)
       THEN /\ pc' = [pc EXCEPT ![t] = "lock"]
            /\ loc' = loc
       ELSE /\ pc' = [pc EXCEPT ![t] = "done"]
            /\ loc' = [loc EXCEPT ![t].out = Ok(loc[t].d)]
    /\ UNCHANGED <<cache, preloaded, readers, writer, arg, callVars>>

\* decimalCache.Lock()
Lock(t) ==
    /\ pc[t] = "lock"
    /\ writer = {}
    /\ readers = {}
    /\ writer' = {t}
    /\ pc' = [pc EXCEPT ![t] = "insert"]
    /\ UNCHANGED <<cache, preloaded, readers, arg, loc, accessLog, callVars>>

\* decimalCache.values[x] = d
InsertStep(t) ==
    /\ pc[t] = "insert"
    /\ cache' = Insert(cache, arg[t].x, loc[t].d)
    /\ accessLog' = accessLog \cup {Access(t, "insert")}
    /\ pc' = [pc EXCEPT ![t] = "unlock"]
    /\ UNCHANGED <<preloaded, readers, writer, arg, loc, callVars>>

\* decimalCache.Unlock(); return d, nil
Unlock(t) ==
    /\ pc[t] = "unlock"
    /\ writer' = {}
    /\ loc' = [loc EXCEPT ![t].out = Ok(loc[t].d)]
    /\ pc' = [pc EXCEPT ![t] = "done"]
    /\ UNCHANGED <<cache, preloaded, readers, arg, accessLog, callVars>>

\* the caller takes the result; the goroutine is free for its next call
Return(t) ==
    /\ pc[t] = "done"
    /\ pc' = [pc EXCEPT ![t] = "idle"]
    /\ arg' = [arg EXCEPT ![t] = NoArg]
    /\ loc' = [loc EXCEPT ![t] = NoLocals]
    /\ UNCHANGED <<cache, preloaded, readers, writer, accessLog, callVars>>

----------------------------------------------------------------------------
(* Strings, addresses and Go values                                         *)
(* A Go string is the sequence of its bytes.  An interface{} value is a     *)
(* record [kind, v]: a string, a uint64, a bool, a map[string]interface{}   *)
(* (a function from field names) or a []interface{}.                        *)

Str(bytes) == [kind |-> "string", v |-> bytes]
Uint(n) == [kind |-> "uint64", v |-> n]
Bool(b) == [kind |-> "bool", v |-> b]
Map(f) == [kind |-> "map", v |-> f]
Array(seq) == [kind |-> "array", v |-> seq]

IsString(val) == val.kind = "string"

EmptyMap == [k \in {} |-> Str(<<>>)]

Rep(n, c) == [i \in 1..n |-> c]

\* "0x" + 40 times "a";  "0xAAAA...";  "0XAAAA...";  40 times "a";  "0xab";  "0x" + 40 times "z"
AddrLower == <<48, 120>> \o Rep(40, 97)
AddrUpper == <<48, 120>> \o Rep(40, 65)
AddrUpperX == <<48, 88>> \o Rep(40, 65)
AddrBare == Rep(40, 97)
AddrShort == <<48, 120, 97, 98>>
AddrNonHex == <<48, 120>> \o Rep(40, 122)
EmptyString == <<>>

AddressTexts == {AddrLower, AddrUpper, AddrUpperX, AddrBare, AddrShort, AddrNonHex}

TxtOrder == <<111, 114, 100, 101, 114>>
TxtNoop == <<110, 111, 111, 112>>
TxtAmount == <<49, 46, 53>>
TxtAlice == <<97, 108, 105, 99, 101>>
TxtChainId == <<48, 120, 54, 54, 101, 101, 101>>
TxtMainnet == <<77, 97, 105, 110, 110, 101, 116>>
TxtTestnet == <<84, 101, 115, 116, 110, 101, 116>>
GroupingNA == <<110, 97>>

\* the bytes of a field name
KeyBytes(k) ==
    CASE k = "type" -> <<116, 121, 112, 101>>
      [] k = "orders" -> <<111, 114, 100, 101, 114, 115>>
      [] k = "grouping" -> <<103, 114, 111, 117, 112, 105, 110, 103>>
      [] k = "builder" -> <<98, 117, 105, 108, 100, 101, 114>>
      [] k = "destination" -> <<100, 101, 115, 116, 105, 110, 97, 116, 105, 111, 110>>
      [] k = "amount" -> <<97, 109, 111, 117, 110, 116>>
      [] k = "time" -> <<116, 105, 109, 101>>
      [] k = "token" -> <<116, 111, 107, 101, 110>>
      [] k = "toPerp" -> <<116, 111, 80, 101, 114, 112>>
      [] k = "nonce" -> <<110, 111, 110, 99, 101>>
      [] k = "signers" -> <<115, 105, 103, 110, 101, 114, 115>>
      [] k = "agentAddress" -> <<97, 103, 101, 110, 116, 65, 100, 100, 114, 101, 115, 115>>
      [] k = "agentName" -> <<97, 103, 101, 110, 116, 78, 97, 109, 101>>
      [] k = "maxFeeRate" -> <<109, 97, 120, 70, 101, 101, 82, 97, 116, 101>>
      [] k = "payloadMultiSigUser" ->
            <<112, 97, 121, 108, 111, 97, 100, 77, 117, 108, 116, 105, 83, 105, 103, 85, 115, 101, 114>>
      [] k = "outerSigner" -> <<111, 117, 116, 101, 114, 83, 105, 103, 110, 101, 114>>
      [] k = "signatureChainId" ->
            <<115, 105, 103, 110, 97, 116, 117, 114, 101, 67, 104, 97, 105, 110, 73, 100>>
      [] k = "hyperliquidChain" ->
            <<104, 121, 112, 101, 114, 108, 105, 113, 117, 105, 100, 67, 104, 97, 105, 110>>
      [] k = "multiSigActionHash" ->
            <<109, 117, 108, 116, 105, 83, 105, 103, 65, 99, 116, 105, 111, 110, 72, 97, 115, 104>>
      [] k = "memo" -> <<109, 101, 109, 111>>

IsDigit(c) == c >= 48 /\ c <= 57
IsLowerHex(c) == c >= 97 /\ c <= 102
IsUpperHex(c) == c >= 65 /\ c <= 70
IsHexChar(c) == IsDigit(c) \/ IsLowerHex(c) \/ IsUpperHex(c)
IsUpper(c) == c >= 65 /\ c <= 90

\* strings.ToLower on ASCII text
ToLower(s) == [i \in 1..Len(s) |-> IF IsUpper(s[i]) THEN s[i] + 32 ELSE s[i]]

IsLowerCase(s) == \A i \in 1..Len(s) : ~IsUpper(s[i])

\* go-ethereum's has0xPrefix: "0x" or "0X"
Has0xPrefix(s) == Len(s) >= 2 /\ s[1] = 48 /\ (s[2] = 120 \/ s[2] = 88)

DropPrefix(s) == SubSeq(s, 3, Len(s))

\* common.IsHexAddress: an optional 0x or 0X, then exactly 40 hex digits
IsHexAddress(s) ==
    LET body == IF Has0xPrefix(s) THEN DropPrefix(s) ELSE s
    IN  Len(body) = 40 /\ \A i \in 1..Len(body) : IsHexChar(body[i])

\* strings.TrimPrefix(address, "0x"): only the lower-case prefix is removed
TrimPrefix0x(s) ==
    IF Len(s) >= 2 /\ s[1] = 48 /\ s[2] = 120 THEN DropPrefix(s) ELSE s

HexVal(c) == IF IsDigit(c) THEN c - 48 ELSE IF IsLowerHex(c) THEN c - 87 ELSE c - 55

\* hex.DecodeString: an error on an odd length or a byte that is no hex digit
HexDecodeString(s) ==
    IF Len(s) % 2 = 1 \/ \E i \in 1..Len(s) : ~IsHexChar(s[i])
    THEN Err("hex.InvalidByteError", "DecodeString")
    ELSE Ok([i \in 1..(Len(s) \div 2) |-> 16 * HexVal(s[2 * i - 1]) + HexVal(s[2 * i])])

AddressToBytes(address) ==
    IF ~IsHexAddress(address)
    THEN Err(ErrInvalidAddress, "address")
    ELSE HexDecodeString(TrimPrefix0x(address))

----------------------------------------------------------------------------
(* msgpack.Marshal and ActionHash                                           *)

\* binary.BigEndian.PutUint64, for the nonces of the model (all below 2^31)
BigEndian64(n) == [i \in 1..8 |-> IF i <= 4 THEN 0 ELSE (n \div 256 ^ (8 - i)) % 256]

\* msgpack str: fixstr below 32 bytes, str8 below 256
EncodeString(s) ==
    IF Len(s) < 32 THEN <<160 + Len(s)>> \o s ELSE <<217, Len(s)>> \o s

\* msgpack of a uint64 held in an interface{}: the 0xcf marker and 8 bytes
EncodeUint64(n) == <<207>> \o BigEndian64(n)

EncodeBool(b) == IF b THEN <<195>> ELSE <<194>>

\* all the orders in which a range over a map with these keys can run
KeyOrders(keys) ==
    {p \in [1..Cardinality(keys) -> keys] : \A i, j \in 1..Cardinality(keys) : p[i] = p[j] => i = j}

RECURSIVE Concats(_)
\* the concatenations that take one sequence from each set of choices, in order
Concats(choices) ==
    IF choices = <<>> THEN {<<>>}
    ELSE {h \o t : h \in Head(choices), t \in Concats(Tail(choices))}

RECURSIVE Marshal(_)
\* msgpack.Marshal(v): every byte sequence a call can produce.  The default
\* encoder writes a map[string]interface{} in the order of Go's range over the
\* map, which the language leaves unspecified.
Marshal(val) ==
    CASE val.kind = "string" -> {EncodeString(val.v)}
      [] val.kind = "uint64" -> {EncodeUint64(val.v)}
      [] val.kind = "bool" -> {EncodeBool(val.v)}
      [] val.kind = "array" ->
            {<<144 + Len(val.v)>> \o body :
                body \in Concats([i \in 1..Len(val.v) |-> Marshal(val.v[i])])}
      [] val.kind = "map" ->
            UNION {
                {<<128 + Len(p)>> \o body :
                    body \in Concats([i \in 1..Len(p) |->
                        {EncodeString(KeyBytes(p[i])) \o e : e \in Marshal(val.v[p[i]])}])}
                : p \in KeyOrders(DOMAIN val.v)}

\* crypto.Keccak256 as an ideal hash: the digest stands for its preimage
Keccak256(data) == [keccak256 |-> data]

\* hexutil.Encode of a digest
HexEncode(hash) == [kind |-> "hex", v |-> hash]

\* HashInput without the byte that tells whether a vault address follows
HashInputUntagged(data, vaultAddress, nonce) ==
    LET withNonce == data \o BigEndian64(nonce)
    IN  IF vaultAddress = EmptyString
        THEN Ok(withNonce)
        ELSE LET addr == AddressToBytes(vaultAddress)
             IN  IF ~addr.ok THEN Err(addr.err, "processing vault address")
                 ELSE Ok(withNonce \o addr.val)

\* ActionHash past the marshalling: the bytes that are hashed, or the address error
HashInput(data, vaultAddress, nonce) ==
    LET withNonce == data \o BigEndian64(nonce)
    IN  IF vaultAddress = EmptyString
        THEN Ok(withNonce \o <<0>>)
        ELSE LET addr == AddressToBytes(vaultAddress)
             IN  IF ~addr.ok THEN Err(addr.err, "processing vault address")
                 ELSE Ok(withNonce \o <<1>> \o addr.val)

\* ActionHash(action, vaultAddress, nonce): every result a call can return, one
\* for each byte sequence msgpack.Marshal can produce for the action
ActionHash(action, vaultAddress, nonce) ==
    {LET input == HashInput(data, vaultAddress, nonce)
     IN  IF input.ok THEN Ok(Keccak256(input.val)) ELSE input
     : data \in Marshal(action)}

----------------------------------------------------------------------------
(* Signature types, domains and typed data                                  *)

SignatureType(name, type) == [Name |-> name, Type |-> type]

USDSendSignTypes ==
    << SignatureType("hyperliquidChain", "string"), SignatureType("destination", "string"),
       SignatureType("amount", "string"), SignatureType("time", "uint64") >>

SpotTransferSignTypes ==
    << SignatureType("hyperliquidChain", "string"), SignatureType("destination", "string"),
       SignatureType("token", "string"), SignatureType("amount", "string"),
       SignatureType("time", "uint64") >>

WithdrawSignTypes ==
    << SignatureType("hyperliquidChain", "string"), SignatureType("destination", "string"),
       SignatureType("amount", "string"), SignatureType("time", "uint64") >>

USDClassTransferSignTypes ==
    << SignatureType("hyperliquidChain", "string"), SignatureType("amount", "string"),
       SignatureType("toPerp", "bool"), SignatureType("nonce", "uint64") >>

ConvertToMultiSigUserSignTypes ==
    << SignatureType("hyperliquidChain", "string"), SignatureType("signers", "string"),
       SignatureType("nonce", "uint64") >>

MultiSigEnvelopeSignTypes ==
    << SignatureType("hyperliquidChain", "string"), SignatureType("multiSigActionHash", "bytes32"),
       SignatureType("nonce", "uint64") >>

AgentSignTypes ==
    << SignatureType("hyperliquidChain", "string"), SignatureType("agentAddress", "address"),
       SignatureType("agentName", "string"), SignatureType("nonce", "uint64") >>

BuilderFeeSignTypes ==
    << SignatureType("hyperliquidChain", "string"), SignatureType("maxFeeRate", "string"),
       SignatureType("builder", "address"), SignatureType("nonce", "uint64") >>

EIP712DomainFields ==
    << SignatureType("name", "string"), SignatureType("version", "string"),
       SignatureType("chainId", "uint256"), SignatureType("verifyingContract", "address") >>

TypeNames(types) == {types[i].Name : i \in 1..Len(types)}

DomainToMap(d) ==
    [name |-> d.Name, version |-> d.Version, chainId |-> d.ChainID,
     verifyingContract |-> d.VerifyingContract]

DefaultExchangeDomain ==
    [Name |-> "Exchange", Version |-> "1", ChainID |-> 1337,
     VerifyingContract |-> "0x0000000000000000000000000000000000000000"]

DefaultHyperliquidDomain ==
    [Name |-> "HyperliquidSignTransaction", Version |-> "1", ChainID |-> 421614,
     VerifyingContract |-> "0x0000000000000000000000000000000000000000"]

SignatureTypesToMap(types) ==
    [i \in 1..Len(types) |-> [name |-> types[i].Name, type |-> types[i].Type]]

\* types is a map from a type name to its field list
createEIP712TypedData(domain, primaryType, message, types) ==
    [domain |-> DomainToMap(domain),
     primaryType |-> primaryType,
     types |-> [n \in DOMAIN types \cup {"EIP712Domain"} |->
                  IF n = "EIP712Domain" THEN SignatureTypesToMap(EIP712DomainFields)
                  ELSE SignatureTypesToMap(types[n])],
     message |-> message]

\* msgpack.Marshal(typedData): the buffer is kept as the value it decodes to
EncodeTypedData(typedData) == [msgpack |-> typedData]

----------------------------------------------------------------------------
(* The wallet capability and the outcome of a signing call                  *)

\* how the wallet answers SignMessage on this call
Wallets == {"signs", "refuses"}

\* what a call returned and the buffers it handed to wallet.SignMessage
Outcome(r, bufs) == [ret |-> r, signed |-> bufs]

Failed(e, at) == Outcome(Err(e, at), <<>>)

\* a wallet call that is made a second time when the first one fails
WalletSignMessageRetried(w, buf) ==
    IF w = "signs" THEN Outcome(Ok([signatureOf |-> buf]), <<buf>>)
    ELSE Outcome(Err("wallet", "SignMessage"), <<buf, buf>>)

\* return wallet.SignMessage(encodedData)
WalletSignMessage(w, buf) ==
    Outcome(IF w = "signs" THEN Ok([signatureOf |-> buf]) ELSE Err("wallet", "SignMessage"),
            <<buf>>)

----------------------------------------------------------------------------
(* L1 and user-signed flows                                                 *)

ConstructPhantomAgent(hash, isMainnet) ==
    [k \in {"source", "connectionId"} |->
        IF k = "source" THEN Str(IF isMainnet THEN <<97>> ELSE <<98>>) ELSE HexEncode(hash)]

AgentType == << SignatureType("source", "string"), SignatureType("connectionId", "bytes32") >>

\* SignL1Action: every outcome a call can have
SignL1Action(w, action, vaultAddress, nonce, isMainnet) ==
    {IF ~hash.ok THEN Failed(hash.err, "computing action hash")
     ELSE WalletSignMessage(w, EncodeTypedData(
             createEIP712TypedData(DefaultExchangeDomain, "Agent",
                 ConstructPhantomAgent(hash.val, isMainnet),
                 [n \in {"Agent"} |-> AgentType])))
     : hash \in ActionHash(action, vaultAddress, nonce)}

\* the copy in which a field the caller already set keeps the caller's value
ActionCopyKeeping(action, isMainnet) ==
    [k \in DOMAIN action \cup {"signatureChainId", "hyperliquidChain"} |->
        IF k \in DOMAIN action THEN action[k]
        ELSE IF k = "signatureChainId" THEN Str(TxtChainId)
        ELSE Str(IF isMainnet THEN TxtMainnet ELSE TxtTestnet)]

\* the copy of the action with the two injected fields
ActionCopy(action, isMainnet) ==
    [k \in DOMAIN action \cup {"signatureChainId", "hyperliquidChain"} |->
        IF k = "signatureChainId" THEN Str(TxtChainId)
        ELSE IF k = "hyperliquidChain" THEN Str(IF isMainnet THEN TxtMainnet ELSE TxtTestnet)
        ELSE action[k]]

SignUserSignedAction(w, action, payloadTypes, primaryType, isMainnet) ==
    WalletSignMessage(w, EncodeTypedData(
        createEIP712TypedData(DefaultHyperliquidDomain, primaryType,
            ActionCopy(action, isMainnet),
            [n \in {primaryType} |-> payloadTypes])))

\* the first of the required fields that the action lacks, or None
FirstMissing(action, required) ==
    IF \A i \in 1..Len(required) : required[i] \in DOMAIN action THEN None
    ELSE required[CHOOSE i \in 1..Len(required) :
            /\ required[i] \notin DOMAIN action
            /\ \A j \in 1..(i - 1) : required[j] \in DOMAIN action]

\* v, ok := action[field].(string); ok && !common.IsHexAddress(v)
BadAddressField(action, field) ==
    IsString(action[field]) /\ ~IsHexAddress(action[field].v)

\* the shape shared by the per-kind wrappers: required fields in order, then the
\* address field (None when the kind has none), then SignUserSignedAction
SignKindAction(w, action, isMainnet, required, addressField, types, primaryType) ==
    LET missing == FirstMissing(action, required)
    IN  IF missing # None THEN Failed("missing required field", missing)
        ELSE IF addressField # None /\ BadAddressField(action, addressField)
             THEN Failed(ErrInvalidAddress, addressField)
             ELSE SignUserSignedAction(w, action, types, primaryType, isMainnet)

SignUSDTransferAction(w, action, isMainnet) ==
    SignKindAction(w, action, isMainnet, <<"destination", "amount", "time">>, "destination",
                   USDSendSignTypes, "HyperliquidTransaction:UsdSend")

SignSpotTransferAction(w, action, isMainnet) ==
    SignKindAction(w, action, isMainnet, <<"destination", "token", "amount", "time">>,
                   "destination", SpotTransferSignTypes, "HyperliquidTransaction:SpotSend")

SignWithdrawFromBridgeAction(w, action, isMainnet) ==
    SignKindAction(w, action, isMainnet, <<"destination", "amount", "time">>, "destination",
                   WithdrawSignTypes, "HyperliquidTransaction:Withdraw")

SignUSDClassTransferAction(w, action, isMainnet) ==
    SignKindAction(w, action, isMainnet, <<"amount", "toPerp", "nonce">>, None,
                   USDClassTransferSignTypes, "HyperliquidTransaction:UsdClassTransfer")

SignConvertToMultiSigUserAction(w, action, isMainnet) ==
    SignKindAction(w, action, isMainnet, <<"signers", "nonce">>, None,
                   ConvertToMultiSigUserSignTypes, "HyperliquidTransaction:ConvertToMultiSigUser")

SignAgentAction(w, action, isMainnet) ==
    SignKindAction(w, action, isMainnet, <<"agentAddress", "agentName", "nonce">>,
                   "agentAddress", AgentSignTypes, "HyperliquidTransaction:ApproveAgent")

SignApproveBuilderFeeAction(w, action, isMainnet) ==
    SignKindAction(w, action, isMainnet, <<"maxFeeRate", "builder", "nonce">>, "builder",
                   BuilderFeeSignTypes, "HyperliquidTransaction:ApproveBuilderFee")

\* a map literal from a sequence of <<field, value>> pairs
MapOf(pairs) ==
    [k \in {pairs[i][1] : i \in 1..Len(pairs)} |->
        pairs[CHOOSE i \in 1..Len(pairs) : pairs[i][1] = k][2]]

CreateUSDTransferAction(destination, amount, timestamp) ==
    MapOf(<< <<"destination", Str(ToLower(destination))>>, <<"amount", Str(amount)>>,
             <<"time", Uint(timestamp)>> >>)

CreateSpotTransferAction(destination, token, amount, timestamp) ==
    MapOf(<< <<"destination", Str(ToLower(destination))>>, <<"token", Str(token)>>,
             <<"amount", Str(amount)>>, <<"time", Uint(timestamp)>> >>)

CreateWithdrawAction(destination, amount, timestamp) ==
    MapOf(<< <<"destination", Str(ToLower(destination))>>, <<"amount", Str(amount)>>,
             <<"time", Uint(timestamp)>> >>)

CreateUSDClassTransferAction(amount, toPerp, nonce) ==
    MapOf(<< <<"amount", Str(amount)>>, <<"toPerp", Bool(toPerp)>>, <<"nonce", Uint(nonce)>> >>)

CreateAgentAction(agentAddress, agentName, nonce) ==
    MapOf(<< <<"agentAddress", Str(ToLower(agentAddress))>>, <<"agentName", Str(agentName)>>,
             <<"nonce", Uint(nonce)>> >>)

CreateApproveBuilderFeeAction(maxFeeRate, builder, nonce) ==
    MapOf(<< <<"maxFeeRate", Str(maxFeeRate)>>, <<"builder", Str(ToLower(builder))>>,
             <<"nonce", Uint(nonce)>> >>)

----------------------------------------------------------------------------
(* Order actions                                                            *)

\* msgpack.Marshal(orderAction) then msgpack.Unmarshal into a map: the struct's
\* fields under their msgpack names, builder omitted when empty
OrderActionToMap(orderAction) ==
    [k \in {"type", "orders", "grouping"}
            \cup (IF orderAction.Builder = EmptyString THEN {} ELSE {"builder"}) |->
        CASE k = "type" -> Str(orderAction.Type)
          [] k = "orders" -> Array(orderAction.Orders)
          [] k = "grouping" -> Str(orderAction.Grouping)
          [] k = "builder" -> Str(orderAction.Builder)]

SignOrderAction(w, orderAction, vaultAddress, nonce, isMainnet) ==
    SignL1Action(w, Map(OrderActionToMap(orderAction)), vaultAddress, nonce, isMainnet)

\* Builder stays the zero value "" unless builder is non-empty: either way it is builder
SignBatchOrderAction(w, orders, grouping, builder, vaultAddress, nonce, isMainnet) ==
    SignOrderAction(w,
        [Type |-> TxtOrder, Orders |-> orders, Grouping |-> grouping, Builder |-> builder],
        vaultAddress, nonce, isMainnet)

----------------------------------------------------------------------------
(* Multi-sig flows                                                          *)

MultiSigTypes ==
    << SignatureType("payloadMultiSigUser", "address"), SignatureType("outerSigner", "address") >>

RECURSIVE EnrichTypes(_)
\* the loop of AddMultiSigTypes: every field, and after each hyperliquidChain the
\* two multi-sig fields
EnrichTypes(signTypes) ==
    IF signTypes = <<>> THEN <<>>
    ELSE <<Head(signTypes)>>
         \o (IF Head(signTypes).Name = "hyperliquidChain" THEN MultiSigTypes ELSE <<>>)
         \o EnrichTypes(Tail(signTypes))

\* AddMultiSigTypes without its check of the enriched flag
AddMultiSigTypesUnchecked(signTypes) ==
    Ok(EnrichTypes(signTypes))

AddMultiSigTypes(signTypes) ==
    IF \E i \in 1..Len(signTypes) : signTypes[i].Name = "hyperliquidChain"
    THEN Ok(EnrichTypes(signTypes))
    ELSE Err(ErrInvalidSignatureChain, "AddMultiSigTypes")

AddMultiSigFields(action, payloadMultiSigUser, outerSigner) ==
    [k \in DOMAIN action \cup {"payloadMultiSigUser", "outerSigner"} |->
        IF k = "outerSigner" THEN Str(ToLower(outerSigner))
        ELSE IF k = "payloadMultiSigUser" THEN Str(ToLower(payloadMultiSigUser))
        ELSE action[k]]

SignMultiSigUserSignedActionPayload(w, action, isMainnet, signTypes, txType, payloadMultiSigUser, outerSigner) ==
    IF ~IsHexAddress(payloadMultiSigUser) THEN Failed(ErrInvalidAddress, "payloadMultiSigUser")
    ELSE IF ~IsHexAddress(outerSigner) THEN Failed(ErrInvalidAddress, "outerSigner")
    ELSE LET envelope == AddMultiSigFields(action, payloadMultiSigUser, outerSigner)
             enriched == AddMultiSigTypes(signTypes)
         IN  IF ~enriched.ok THEN Failed(enriched.err, "enriching signature types")
             ELSE SignUserSignedAction(w, envelope, enriched.val, txType, isMainnet)

SignMultiSigL1ActionPayload(w, action, isMainnet, vaultAddress, timestamp, payloadMultiSigUser, outerSigner) ==
    IF ~IsHexAddress(payloadMultiSigUser) THEN {Failed(ErrInvalidAddress, "payloadMultiSigUser")}
    ELSE IF ~IsHexAddress(outerSigner) THEN {Failed(ErrInvalidAddress, "outerSigner")}
    ELSE IF vaultAddress # EmptyString /\ ~IsHexAddress(vaultAddress)
         THEN {Failed(ErrInvalidAddress, "vaultAddress")}
         ELSE SignL1Action(w,
                 Array(<<Str(ToLower(payloadMultiSigUser)), Str(ToLower(outerSigner)), action>>),
                 vaultAddress, timestamp, isMainnet)

\* the action without its "type" key
ActionWithoutTag(action) == [k \in DOMAIN action \ {"type"} |-> action[k]]

SignMultiSigAction(w, action, isMainnet, vaultAddress, nonce) ==
    IF vaultAddress # EmptyString /\ ~IsHexAddress(vaultAddress)
    THEN {Failed(ErrInvalidAddress, "vaultAddress")}
    ELSE {IF ~hash.ok THEN Failed(hash.err, "computing action hash")
          ELSE SignUserSignedAction(w,
                  [k \in {"multiSigActionHash", "nonce"} |->
                      IF k = "nonce" THEN Uint(nonce) ELSE HexEncode(hash.val)],
                  MultiSigEnvelopeSignTypes, "HyperliquidTransaction:SendMultiSig", isMainnet)
          : hash \in ActionHash(Map(ActionWithoutTag(action)), vaultAddress, nonce)}

\* wallet.Address().Hex(): the wallet's own address, in checksum (mixed) case
WalletAddress == AddrUpper

\* the envelope comes back with the signature
CreateMultiSigAction(innerAction, w, isMainnet, vaultAddress, nonce) ==
    {IF ~sig.ret.ok THEN Outcome(Err(sig.ret.err, "signing multi-sig action"), sig.signed)
     ELSE Outcome(
             Ok([envelope |->
                     [type |-> "sendMultiSig", wallet |-> ToLower(WalletAddress),
                      vaultAddress |-> vaultAddress, nonce |-> nonce,
                      action |-> innerAction, signature |-> sig.ret.val],
                 sig |-> sig.ret.val]),
             sig.signed)
     : sig \in SignMultiSigAction(w, innerAction, isMainnet, vaultAddress, nonce)}

----------------------------------------------------------------------------
(* The maps in memory during a call                                         *)

\* no map is followed
NoHeap == <<>>

\* the memory in which a call that is given the action map starts
CallerHeap(action) == [o \in {"action"} |-> action]

\* make(map[string]interface{}, n): a new, empty map under its variable's name
Make(h, obj) == [o \in DOMAIN h \cup {obj} |-> IF o = obj THEN EmptyMap ELSE h[o]]

\* obj[k] = v
Store(h, obj, k, v) ==
    [h EXCEPT ![obj] = [f \in DOMAIN h[obj] \cup {k} |-> IF f = k THEN v ELSE h[obj][f]]]

\* for k, v := range src { dst[k] = v }, for the keys the loop does not skip
CopyFields(h, dst, src, keys) ==
    [h EXCEPT ![dst] = [f \in DOMAIN h[dst] \cup keys |-> IF f \in keys THEN h[src][f] ELSE h[dst][f]]]

\* the two fields written into the map the call was given
SignUserSignedActionInPlace(h, action, isMainnet) ==
    Store(Store(h, action, "signatureChainId", Str(TxtChainId)),
          action, "hyperliquidChain", Str(IF isMainnet THEN TxtMainnet ELSE TxtTestnet))

\* the memory after SignUserSignedAction, given the map named action
SignUserSignedActionHeap(h, action, isMainnet) ==
    LET copied == CopyFields(Make(h, "actionCopy"), "actionCopy", action, DOMAIN h[action])
    IN  Store(Store(copied, "actionCopy", "signatureChainId", Str(TxtChainId)),
              "actionCopy", "hyperliquidChain", Str(IF isMainnet THEN TxtMainnet ELSE TxtTestnet))

\* the memory after AddMultiSigFields, given the map named action
AddMultiSigFieldsHeap(h, action, payloadMultiSigUser, outerSigner) ==
    LET copied == CopyFields(Make(h, "result"), "result", action, DOMAIN h[action])
    IN  Store(Store(copied, "result", "payloadMultiSigUser", Str(ToLower(payloadMultiSigUser))),
              "result", "outerSigner", Str(ToLower(outerSigner)))

\* the envelope is the map AddMultiSigFields returned
SignMultiSigUserSignedActionPayloadHeap(h, action, isMainnet, signTypes, payloadMultiSigUser, outerSigner) ==
    IF ~IsHexAddress(payloadMultiSigUser) \/ ~IsHexAddress(outerSigner) THEN h
    ELSE LET enveloped == AddMultiSigFieldsHeap(h, action, payloadMultiSigUser, outerSigner)
         IN  IF ~AddMultiSigTypes(signTypes).ok THEN enveloped
             ELSE SignUserSignedActionHeap(enveloped, "result", isMainnet)

\* the envelope that is signed is a map literal, filled from the digest and the nonce
SignMultiSigActionHeap(h, action, vaultAddress) ==
    IF vaultAddress # EmptyString /\ ~IsHexAddress(vaultAddress) THEN h
    ELSE CopyFields(Make(h, "actionWithoutTag"), "actionWithoutTag", action,
                    DOMAIN h[action] \ {"type"})

\* the envelope that is returned refers to innerAction and stores nothing in it
CreateMultiSigActionHeap(h, innerAction, vaultAddress) ==
    SignMultiSigActionHeap(h, innerAction, vaultAddress)

----------------------------------------------------------------------------
(* Signature verification                                                   *)

\* the decimal digits of a length, as fmt.Sprintf("%d", n) writes them
RECURSIVE DecimalDigits(_)
DecimalDigits(n) ==
    IF n < 10 THEN <<48 + n>> ELSE DecimalDigits(n \div 10) \o <<48 + (n % 10)>>

\* "\x19Ethereum Signed Message:\n"
TxtSignedMessage ==
    <<25, 69, 116, 104, 101, 114, 101, 117, 109, 32, 83, 105, 103, 110, 101, 100, 32,
      77, 101, 115, 115, 97, 103, 101, 58, 10>>

HashMessage(message) ==
    Keccak256(TxtSignedMessage \o DecimalDigits(Len(message)) \o message)

\* hexutil.Decode: an error on the empty text, on a text without the prefix 0x or
\* 0X, and on what hex.DecodeString rejects; else the bytes
HexutilDecode(input) ==
    IF Len(input) = 0 THEN Err("hexutil.ErrEmptyString", "Decode")
    ELSE IF ~Has0xPrefix(input) THEN Err("hexutil.ErrMissingPrefix", "Decode")
    ELSE IF ~HexDecodeString(DropPrefix(input)).ok THEN Err("hexutil.ErrSyntax", "Decode")
    ELSE HexDecodeString(DropPrefix(input))

\* what key recovery can answer for a signature of 65 bytes with a recovery id
\* below 4: no key (the empty sequence), or a key, known here by the 20 bytes of
\* its address
RecoveredKeys == {<<>>, Rep(20, 170), Rep(20, 187)}

\* a recovery that reports no failure: whatever it is given, it answers with key
RecoverAddressUnchecked(hash, sig, key) ==
    Ok(key)

\* crypto.Ecrecover, then crypto.UnmarshalPubkey and crypto.PubkeyToAddress: the
\* address of the recovered key; key is what the curve arithmetic answers
RecoverAddress(hash, sig, key) ==
    IF Len(sig) # 65 THEN Err("secp256k1.ErrInvalidSignatureLen", "recovering public key")
    ELSE IF sig[65] >= 4 THEN Err("secp256k1.ErrInvalidRecoveryID", "recovering public key")
    ELSE IF key = <<>> THEN Err("secp256k1.ErrRecoverFailed", "recovering public key")
    ELSE Ok(key)

\* VerifySignature(address, message, sig): (bool, error), the bool as a Go value
VerifySignature(address, message, sig, key) ==
    IF ~IsHexAddress(address) THEN Err(ErrInvalidAddress, "address")
    ELSE IF ~AddressToBytes(address).ok THEN AddressToBytes(address)
    ELSE IF ~HexutilDecode(sig.R).ok THEN Err(HexutilDecode(sig.R).err, "invalid R value")
    ELSE IF ~HexutilDecode(sig.S).ok THEN Err(HexutilDecode(sig.S).err, "invalid S value")
    ELSE The({IF ~recoveredAddr.ok THEN recoveredAddr
              ELSE Ok(Bool(recoveredAddr.val = AddressToBytes(address).val))
              : recoveredAddr \in
                  {RecoverAddress(HashMessage(message),
                                  HexutilDecode(sig.R).val \o HexutilDecode(sig.S).val \o <<sig.V>>,
                                  key)}})

----------------------------------------------------------------------------
(* Order shaping                                                            *)

\* a Go pointer: nil, or a pointer to a value
Nil == <<>>
Ptr(v) == <<v>>

\* x <= 0
NotPositive(x) == x.neg \/ IsZero(x)

\* decimal.Decimal.String(): the digits without the trailing zeros of the fraction
RECURSIVE TrimZeros(_, _)
TrimZeros(frac, digits) ==
    IF digits > 0 /\ frac % 10 = 0 THEN TrimZeros(frac \div 10, digits - 1)
    ELSE [frac |-> frac, digits |-> digits]

DecimalString(d) ==
    LET t == TrimZeros(d.frac, d.places)
    IN  [neg |-> d.neg, whole |-> d.whole, frac |-> t.frac, digits |-> t.digits]

\* FloatToWire on a finite float: the wire text and the cache the call leaves
FloatToWire(c, n, x) ==
    The({[ret |-> IF r.ret.ok THEN Ok(DecimalString(r.ret.val)) ELSE r.ret, cache |-> r.cache]
         : r \in {FloatToDecimal(c, n, x, DefaultDecimalPlaces)}})

OrderTypeToWire(c, n, orderType) ==
    IF orderType.Limit # Nil
    THEN [ret |-> Ok([Limit |-> orderType.Limit, Trigger |-> Nil]), cache |-> c]
    ELSE IF orderType.Trigger # Nil
         THEN The({IF ~px.ret.ok
                   THEN [ret |-> Err(px.ret.err, "converting trigger price"), cache |-> px.cache]
                   ELSE [ret |-> Ok([Limit |-> Nil,
                                     Trigger |-> Ptr([IsMarket |-> orderType.Trigger[1].IsMarket,
                                                      TriggerPx |-> px.ret.val,
                                                      TPSL |-> orderType.Trigger[1].TPSL])]),
                         cache |-> px.cache]
                   : px \in {FloatToWire(c, n, orderType.Trigger[1].TriggerPx)}})
         ELSE [ret |-> Err(ErrInvalidOrderType, "OrderTypeToWire"), cache |-> c]

\* OrderRequest.Validate: nil, or the error
ValidateOrderRequest(o) ==
    IF NotPositive(o.Size) THEN Err("size must be positive", "Validate")
    ELSE IF NotPositive(o.LimitPrice) THEN Err("limit price must be positive", "Validate")
    ELSE IF o.OrderType.Limit = Nil /\ o.OrderType.Trigger = Nil
         THEN Err(ErrInvalidOrderType, "Validate")
         ELSE IF o.OrderType.Trigger # Nil /\ NotPositive(o.OrderType.Trigger[1].TriggerPx)
              THEN Err("trigger price must be positive", "Validate")
              ELSE Ok(None)

\* the three conversions of OrderRequestToOrderWire past the validation, in the
\* order of the code: order type, limit price, size
OrderWireOf(c, n, order, asset) ==
    The({IF ~wireType.ret.ok
         THEN [ret |-> Err(wireType.ret.err, "converting order type"), cache |-> wireType.cache]
         ELSE The({IF ~wirePrice.ret.ok
                   THEN [ret |-> Err(wirePrice.ret.err, "converting limit price"),
                         cache |-> wirePrice.cache]
                   ELSE The({IF ~wireSize.ret.ok
                             THEN [ret |-> Err(wireSize.ret.err, "converting size"),
                                   cache |-> wireSize.cache]
                             ELSE [ret |-> Ok([Asset |-> asset, IsBuy |-> order.IsBuy,
                                               Price |-> wirePrice.ret.val,
                                               Size |-> wireSize.ret.val,
                                               ReduceOnly |-> order.ReduceOnly,
                                               Type |-> wireType.ret.val,
                                               Cloid |-> order.Cloid]),
                                   cache |-> wireSize.cache]
                             : wireSize \in {FloatToWire(wirePrice.cache, n, order.Size)}})
                   : wirePrice \in {FloatToWire(wireType.cache, n, order.LimitPrice)}})
         : wireType \in {OrderTypeToWire(c, n, order.OrderType)}})

OrderRequestToOrderWire(c, n, order, asset) ==
    IF ~ValidateOrderRequest(order).ok
    THEN [ret |-> Err(ValidateOrderRequest(order).err, "invalid order request"), cache |-> c]
    ELSE OrderWireOf(c, n, order, asset)

\* an int64 or an int in two's complement, as 16-bit limbs, the lowest first:
\* four limbs for 64 bits, two for 32
IsNegativeInt(x) == x[Len(x)] >= 32768
IsZeroInt(x) == \A i \in 1..Len(x) : x[i] = 0

\* int(x) for an int64 x: every bit where the build's int has 64 bits, the low 32
\* bits where it has 32
ToInt(x, intSize) == IF intSize = 64 THEN x ELSE SubSeq(x, 1, 2)

\* ModifyRequest.Validate: nil, or the error
ValidateModifyRequest(m) ==
    IF IsZeroInt(m.OrderID) /\ m.Cloid = Nil
    THEN Err("either OrderID or Cloid must be specified", "Validate")
    ELSE ValidateOrderRequest(m.Order)

ModifyRequestToWire(c, n, req, assetMap, intSize) ==
    IF ~ValidateModifyRequest(req).ok
    THEN [ret |-> Err(ValidateModifyRequest(req).err, "invalid modify request"), cache |-> c]
    ELSE IF req.Order.Coin \notin DOMAIN assetMap
         THEN [ret |-> Err("unknown asset", "ModifyRequestToWire"), cache |-> c]
         ELSE The({IF ~wireOrder.ret.ok
                   THEN [ret |-> Err(wireOrder.ret.err, "converting order"),
                         cache |-> wireOrder.cache]
                   ELSE IF IsNegativeInt(req.OrderID) \/ IsZeroInt(req.OrderID)
                        THEN [ret |-> Err("modification by Cloid not implemented",
                                          "ModifyRequestToWire"),
                              cache |-> wireOrder.cache]
                        ELSE [ret |-> Ok([OrderID |-> ToInt(req.OrderID, intSize),
                                          Order |-> wireOrder.ret.val]),
                              cache |-> wireOrder.cache]
                   : wireOrder \in {OrderRequestToOrderWire(c, n, req.Order,
                                                            assetMap[req.Order.Coin])}})

----------------------------------------------------------------------------
(* Inputs of the API calls                                                  *)

\* nonces and timestamps are 257, 514, ...: two non-zero bytes each
MaxNonce == 2
Nonces == {257 * n : n \in 1..MaxNonce}

\* field-type lists handed to the multi-sig enrichment have at most this many fields
MaxTypes == 3

VaultTexts == {EmptyString} \cup AddressTexts

Range(seq) == {seq[i] : i \in 1..Len(seq)}

\* a value for a field of a user-signed action; a is the text of its address fields
FieldValue(field, a) ==
    CASE field \in {"destination", "agentAddress", "builder"} -> Str(a)
      [] field \in {"time", "nonce"} -> Uint(257)
      [] field = "toPerp" -> Bool(TRUE)
      [] field = "agentName" -> Str(TxtAlice)
      [] OTHER -> Str(TxtAmount)

\* a caller's own USD transfer action, the destination as the caller wrote it
CreateUSDTransferActionRaw(a) ==
    [k \in {"destination", "amount", "time"} |-> FieldValue(k, a)]

\* fields a caller may add to an action beyond those its kind requires
ExtraFields == {{}, {"memo"}, {"hyperliquidChain"}, {"signatureChainId"}}

\* the actions a caller may hand to a per-kind wrapper: all required fields or
\* all but one, and possibly one more field
UserActions(required, a) ==
    {[k \in (Range(required) \ drop) \cup extra |-> FieldValue(k, a)] :
        drop \in {{}} \cup {{f} : f \in Range(required)}, extra \in ExtraFields}

\* actions for the L1 flows: field maps with one, two and three keys
L1Maps ==
    { MapOf(<< <<"type", Str(TxtNoop)>> >>),
      MapOf(<< <<"type", Str(TxtOrder)>>, <<"grouping", Str(GroupingNA)>> >>),
      MapOf(<< <<"type", Str(TxtOrder)>>, <<"grouping", Str(GroupingNA)>>,
               <<"builder", Str(AddrUpper)>> >>) }

\* the field types the lists of the multi-sig enrichment are made of
FieldTypes ==
    { SignatureType("hyperliquidChain", "string"), SignatureType("destination", "string"),
      SignatureType("time", "uint64") }

TypeLists == UNION {[1..n -> FieldTypes] : n \in 0..MaxTypes}

\* 1.5, 1.234567891 and -0.0000000000004
OrderFloats ==
    {Float(FALSE, 1, 50000000, 0), Float(FALSE, 1, 23456789, 10000), Float(TRUE, 0, 0, 4)}

OrderTypes ==
    {[Limit |-> l, Trigger |-> t] :
        l \in {Nil, Ptr([TIF |-> "Gtc"])},
        t \in {Nil} \cup {Ptr([TriggerPx |-> x, IsMarket |-> TRUE, TPSL |-> "tp"]) : x \in OrderFloats}}

OrderRequests ==
    {[Coin |-> "ETH", IsBuy |-> TRUE, Size |-> sz, LimitPrice |-> px, OrderType |-> ot,
      ReduceOnly |-> FALSE, Cloid |-> Nil] :
        sz \in OrderFloats, px \in OrderFloats, ot \in OrderTypes}

\* order ids: 0, 7, -1, 2^31 + 7 and 2^32 + 7
OrderIDs ==
    { <<0, 0, 0, 0>>, <<7, 0, 0, 0>>, <<65535, 65535, 65535, 65535>>,
      <<7, 32768, 0, 0>>, <<7, 0, 1, 0>> }

ModifyRequests ==
    {[OrderID |-> id, Cloid |-> cloid, Order |-> order] :
        id \in OrderIDs, cloid \in {Nil, Ptr(TxtAlice)}, order \in OrderRequests}

\* the caller's asset ids: one map knows the coin of the orders, one does not
AssetMaps == {[coin \in {"ETH"} |-> 1], [coin \in {"BTC"} |-> 0]}

\* the bits of int in the build: Go leaves the choice of 32 or 64 to the platform
IntSizes == {32, 64}

\* the R and S texts of a signature: 32 bytes in hex, 31 bytes, no prefix, no hex,
\* an odd number of digits, the empty text
SigTexts ==
    { <<48, 120>> \o Rep(64, 49), <<48, 120>> \o Rep(62, 49), Rep(64, 49),
      <<48, 120>> \o Rep(64, 122), <<48, 120, 49>>, EmptyString }

\* recovery ids: 0, 1 and the 27 of Ethereum's own convention
SigVs == {0, 1, 27}

Messages == {EmptyString, TxtAlice}


----------------------------------------------------------------------------
(* The API calls, each from entry to return                                 *)

NoCall == [op |-> "none", args |-> <<>>]
NoHash == [op |-> "none", args |-> <<>>, ret |-> Ok(None)]

\* the calls are synchronous: one begins when the caller holds no pending result
Idle == call.op = "none"

Begins(op) ==
    /\ Idle
    /\ prevHash' = IF op = "ActionHash" THEN prevHash ELSE NoHash

\* a call that leaves the conversion cache alone, and the memory it leaves
Leaves(op, args, out, h) ==
    /\ Begins(op)
    /\ call' = [op |-> op, args |-> args]
    /\ ret' = out.ret
    /\ signed' = out.signed
    /\ heap' = h
    /\ UNCHANGED cacheVars

\* such a call, when its maps are not followed
Returns(op, args, out) == Leaves(op, args, out, NoHeap)

\* a call that converts floats: it signs nothing and may fill the cache
Converts(op, args, out) ==
    /\ Begins(op)
    /\ call' = [op |-> op, args |-> args]
    /\ ret' = out.ret
    /\ signed' = <<>>
    /\ heap' = NoHeap
    /\ cache' = out.cache
    /\ UNCHANGED <<preloaded, readers, writer, pc, arg, loc, accessLog>>

\* the caller takes the result of the call and goes on
TakeResult ==
    /\ call.op # "none"
    /\ prevHash' = NoHash
    /\ call' = NoCall
    /\ ret' = Ok(None)
    /\ signed' = <<>>
    /\ heap' = NoHeap
    /\ UNCHANGED cacheVars

\* the caller keeps the digest ActionHash returned, to compare it with the next one
KeepHash ==
    /\ call.op = "ActionHash"
    /\ prevHash' = [op |-> call.op, args |-> call.args, ret |-> ret]
    /\ call' = NoCall
    /\ ret' = Ok(None)
    /\ signed' = <<>>
    /\ heap' = NoHeap
    /\ UNCHANGED cacheVars

ActionHashCall ==
    /\ Idle
    /\ \E m \in L1Maps, vault \in VaultTexts, nonce \in Nonces :
        \E hash \in ActionHash(Map(m), vault, nonce) :
            \E out \in {Outcome(hash, <<>>)} :
                Returns("ActionHash",
                    [action |-> m, vaultAddress |-> vault, nonce |-> nonce],
                    out)

SignL1ActionCall ==
    /\ Idle
    /\ \E m \in L1Maps, vault \in VaultTexts, nonce \in Nonces, isMainnet \in BOOLEAN, w \in Wallets :
        \E out \in SignL1Action(w, Map(m), vault, nonce, isMainnet) :
            Returns("SignL1Action",
                    [action |-> m, vaultAddress |-> vault, nonce |-> nonce,
                     isMainnet |-> isMainnet, wallet |-> w],
                    out)

SignUserSignedActionCall ==
    /\ Idle
    /\ \E a \in AddressTexts, isMainnet \in BOOLEAN, w \in Wallets :
        \E action \in UserActions(<<"destination", "amount", "time">>, a) :
            \E out \in {SignUserSignedAction(w, action, USDSendSignTypes, "HyperliquidTransaction:UsdSend", isMainnet)} :
                Leaves("SignUserSignedAction",
                    [action |-> action, payloadTypes |-> USDSendSignTypes, isMainnet |-> isMainnet, wallet |-> w],
                    out, SignUserSignedActionHeap(CallerHeap(action), "action", isMainnet))

SignUSDTransferActionCall ==
    /\ Idle
    /\ \E a \in AddressTexts, isMainnet \in BOOLEAN, w \in Wallets :
        \E action \in UserActions(<<"destination", "amount", "time">>, a) :
            \E out \in {SignUSDTransferAction(w, action, isMainnet)} :
                Returns("SignUSDTransferAction",
                    [action |-> action, payloadTypes |-> USDSendSignTypes, isMainnet |-> isMainnet, wallet |-> w],
                    out)

SignSpotTransferActionCall ==
    /\ Idle
    /\ \E a \in AddressTexts, isMainnet \in BOOLEAN, w \in Wallets :
        \E action \in UserActions(<<"destination", "token", "amount", "time">>, a) :
            \E out \in {SignSpotTransferAction(w, action, isMainnet)} :
                Returns("SignSpotTransferAction",
                    [action |-> action, payloadTypes |-> SpotTransferSignTypes, isMainnet |-> isMainnet, wallet |-> w],
                    out)

SignWithdrawFromBridgeActionCall ==
    /\ Idle
    /\ \E a \in AddressTexts, isMainnet \in BOOLEAN, w \in Wallets :
        \E action \in UserActions(<<"destination", "amount", "time">>, a) :
            \E out \in {SignWithdrawFromBridgeAction(w, action, isMainnet)} :
                Returns("SignWithdrawFromBridgeAction",
                    [action |-> action, payloadTypes |-> WithdrawSignTypes, isMainnet |-> isMainnet, wallet |-> w],
                    out)

SignUSDClassTransferActionCall ==
    /\ Idle
    /\ \E isMainnet \in BOOLEAN, w \in Wallets :
        \E action \in UserActions(<<"amount", "toPerp", "nonce">>, AddrLower) :
            \E out \in {SignUSDClassTransferAction(w, action, isMainnet)} :
                Returns("SignUSDClassTransferAction",
                    [action |-> action, payloadTypes |-> USDClassTransferSignTypes, isMainnet |-> isMainnet, wallet |-> w],
                    out)

SignConvertToMultiSigUserActionCall ==
    /\ Idle
    /\ \E isMainnet \in BOOLEAN, w \in Wallets :
        \E action \in UserActions(<<"signers", "nonce">>, AddrLower) :
            \E out \in {SignConvertToMultiSigUserAction(w, action, isMainnet)} :
                Returns("SignConvertToMultiSigUserAction",
                    [action |-> action, payloadTypes |-> ConvertToMultiSigUserSignTypes, isMainnet |-> isMainnet, wallet |-> w],
                    out)

SignAgentActionCall ==
    /\ Idle
    /\ \E a \in AddressTexts, isMainnet \in BOOLEAN, w \in Wallets :
        \E action \in UserActions(<<"agentAddress", "agentName", "nonce">>, a) :
            \E out \in {SignAgentAction(w, action, isMainnet)} :
                Returns("SignAgentAction",
                    [action |-> action, payloadTypes |-> AgentSignTypes, isMainnet |-> isMainnet, wallet |-> w],
                    out)

SignApproveBuilderFeeActionCall ==
    /\ Idle
    /\ \E a \in AddressTexts, isMainnet \in BOOLEAN, w \in Wallets :
        \E action \in UserActions(<<"maxFeeRate", "builder", "nonce">>, a) :
            \E out \in {SignApproveBuilderFeeAction(w, action, isMainnet)} :
                Returns("SignApproveBuilderFeeAction",
                    [action |-> action, payloadTypes |-> BuilderFeeSignTypes, isMainnet |-> isMainnet, wallet |-> w],
                    out)

\* the orders slice is empty in every modelled call
SignOrderActionCall ==
    /\ Idle
    /\ \E builder \in VaultTexts, vault \in VaultTexts, nonce \in Nonces, w \in Wallets :
        LET orderAction ==
                [Type |-> TxtOrder, Orders |-> <<>>, Grouping |-> GroupingNA, Builder |-> builder]
        IN  \E out \in SignOrderAction(w, orderAction, vault, nonce, TRUE) :
                Returns("SignOrderAction",
                        [orderAction |-> orderAction, vaultAddress |-> vault, nonce |-> nonce,
                         isMainnet |-> TRUE, wallet |-> w],
                        out)

SignBatchOrderActionCall ==
    /\ Idle
    /\ \E builder \in VaultTexts, vault \in VaultTexts, nonce \in Nonces, w \in Wallets :
        \E out \in SignBatchOrderAction(w, <<>>, GroupingNA, builder, vault, nonce, TRUE) :
            Returns("SignBatchOrderAction",
                    [orders |-> <<>>, grouping |-> GroupingNA, builder |-> builder,
                     vaultAddress |-> vault, nonce |-> nonce, isMainnet |-> TRUE, wallet |-> w],
                    out)

\* the enriched list as the caller holds it: a slice value under its type's name
Slice(r) == IF r.ok THEN Ok([SignatureTypes |-> r.val]) ELSE r

AddMultiSigTypesCall ==
    /\ Idle
    /\ \E signTypes \in TypeLists :
        \E out \in {Outcome(Slice(AddMultiSigTypes(signTypes)), <<>>)} :
            Returns("AddMultiSigTypes",
                [signTypes |-> signTypes],
                out)

AddMultiSigFieldsCall ==
    /\ Idle
    /\ \E user \in AddressTexts, outer \in AddressTexts :
        \E action \in UserActions(<<"destination", "amount", "time">>, AddrLower) :
            \E out \in {Outcome(Ok(AddMultiSigFields(action, user, outer)), <<>>)} :
                Leaves("AddMultiSigFields",
                    [action |-> action, payloadMultiSigUser |-> user, outerSigner |-> outer],
                    out, AddMultiSigFieldsHeap(CallerHeap(action), "action", user, outer))

SignMultiSigUserSignedActionPayloadCall ==
    /\ Idle
    /\ \E user \in AddressTexts, outer \in {AddrLower, AddrUpperX, AddrShort},
          signTypes \in TypeLists, a \in {AddrUpper, AddrNonHex}, w \in Wallets :
        LET action == CreateUSDTransferActionRaw(a)
        IN  \E out \in {SignMultiSigUserSignedActionPayload(w, action, TRUE, signTypes,
                            "HyperliquidTransaction:UsdSend", user, outer)} :
                Leaves("SignMultiSigUserSignedActionPayload",
                        [action |-> action, isMainnet |-> TRUE, signTypes |-> signTypes,
                         payloadMultiSigUser |-> user, outerSigner |-> outer, wallet |-> w],
                        out, SignMultiSigUserSignedActionPayloadHeap(CallerHeap(action), "action",
                                 TRUE, signTypes, user, outer))

SignMultiSigL1ActionPayloadCall ==
    /\ Idle
    /\ \E user \in AddressTexts, outer \in AddressTexts, vault \in VaultTexts, m \in L1Maps,
       w \in Wallets :
        \E out \in SignMultiSigL1ActionPayload(w, Map(m), TRUE, vault, 257, user, outer) :
            Returns("SignMultiSigL1ActionPayload",
                    [action |-> m, isMainnet |-> TRUE, vaultAddress |-> vault,
                     payloadMultiSigUser |-> user, outerSigner |-> outer, wallet |-> w],
                    out)

SignMultiSigActionCall ==
    /\ Idle
    /\ \E m \in L1Maps, vault \in VaultTexts, nonce \in Nonces, isMainnet \in BOOLEAN, w \in Wallets :
        \E out \in SignMultiSigAction(w, m, isMainnet, vault, nonce) :
            Leaves("SignMultiSigAction",
                    [action |-> m, isMainnet |-> isMainnet, vaultAddress |-> vault,
                     nonce |-> nonce, wallet |-> w],
                    out, SignMultiSigActionHeap(CallerHeap(m), "action", vault))

CreateMultiSigActionCall ==
    /\ Idle
    /\ \E m \in L1Maps, vault \in VaultTexts, nonce \in Nonces, w \in Wallets :
        \E out \in CreateMultiSigAction(m, w, TRUE, vault, nonce) :
            Leaves("CreateMultiSigAction",
                    [action |-> m, isMainnet |-> TRUE, vaultAddress |-> vault,
                     nonce |-> nonce, wallet |-> w],
                    out, CreateMultiSigActionHeap(CallerHeap(m), "action", vault))

CreateUSDTransferActionCall ==
    /\ Idle
    /\ \E a \in AddressTexts, nonce \in Nonces :
        \E out \in {Outcome(Ok(CreateUSDTransferAction(a, TxtAmount, nonce)), <<>>)} :
            Returns("CreateUSDTransferAction",
                [destination |-> a, timestamp |-> nonce],
                out)

CreateSpotTransferActionCall ==
    /\ Idle
    /\ \E a \in AddressTexts, nonce \in Nonces :
        \E out \in {Outcome(Ok(CreateSpotTransferAction(a, TxtAlice, TxtAmount, nonce)), <<>>)} :
            Returns("CreateSpotTransferAction",
                [destination |-> a, timestamp |-> nonce],
                out)

CreateWithdrawActionCall ==
    /\ Idle
    /\ \E a \in AddressTexts, nonce \in Nonces :
        \E out \in {Outcome(Ok(CreateWithdrawAction(a, TxtAmount, nonce)), <<>>)} :
            Returns("CreateWithdrawAction",
                [destination |-> a, timestamp |-> nonce],
                out)

CreateUSDClassTransferActionCall ==
    /\ Idle
    /\ \E toPerp \in BOOLEAN, nonce \in Nonces :
        \E out \in {Outcome(Ok(CreateUSDClassTransferAction(TxtAmount, toPerp, nonce)), <<>>)} :
            Returns("CreateUSDClassTransferAction",
                [toPerp |-> toPerp, nonce |-> nonce],
                out)

CreateAgentActionCall ==
    /\ Idle
    /\ \E a \in AddressTexts, nonce \in Nonces :
        \E out \in {Outcome(Ok(CreateAgentAction(a, TxtAlice, nonce)), <<>>)} :
            Returns("CreateAgentAction",
                [agentAddress |-> a, nonce |-> nonce],
                out)

CreateApproveBuilderFeeActionCall ==
    /\ Idle
    /\ \E a \in AddressTexts, nonce \in Nonces :
        \E out \in {Outcome(Ok(CreateApproveBuilderFeeAction(TxtAmount, a, nonce)), <<>>)} :
            Returns("CreateApproveBuilderFeeAction",
                [builder |-> a, nonce |-> nonce],
                out)

VerifySignatureCall ==
    /\ Idle
    /\ \E address \in AddressTexts, message \in Messages, r \in SigTexts, s \in SigTexts,
          v \in SigVs, key \in RecoveredKeys :
        \E out \in {Outcome(VerifySignature(address, message, [R |-> r, S |-> s, V |-> v], key),
                            <<>>)} :
            Returns("VerifySignature",
                    [address |-> address, message |-> message,
                     sig |-> [R |-> r, S |-> s, V |-> v], key |-> key],
                    out)

OrderTypeToWireCall ==
    /\ Idle
    /\ \E orderType \in OrderTypes :
        \E out \in {OrderTypeToWire(cache, preloaded, orderType)} :
            Converts("OrderTypeToWire",
                [orderType |-> orderType],
                out)

ValidateCall ==
    /\ Idle
    /\ \E order \in OrderRequests :
        \E out \in {Outcome(ValidateOrderRequest(order), <<>>)} :
            Returns("OrderRequest.Validate",
                [order |-> order],
                out)

OrderRequestToOrderWireCall ==
    /\ Idle
    /\ \E order \in OrderRequests :
        \E out \in {OrderRequestToOrderWire(cache, preloaded, order, 1)} :
            Converts("OrderRequestToOrderWire",
                [order |-> order],
                out)

ModifyRequestToWireCall ==
    /\ Idle
    /\ \E req \in ModifyRequests, assetMap \in AssetMaps, intSize \in IntSizes :
        \E out \in {ModifyRequestToWire(cache, preloaded, req, assetMap, intSize)} :
            Converts("ModifyRequestToWire",
                [req |-> req, assetMap |-> assetMap, intSize |-> intSize],
                out)

----------------------------------------------------------------------------
(* Specifications                                                           *)

InitCache ==
    /\ cache = EmptyCache
    /\ preloaded \in {0} \cup {CacheCap - k : k \in 0..MaxFree}
    /\ readers = {}
    /\ writer = {}
    /\ pc = [t \in Threads |-> "idle"]
    /\ arg = [t \in Threads |-> NoArg]
    /\ loc = [t \in Threads |-> NoLocals]
    /\ accessLog = {}

InitCalls ==
    /\ call = [op |-> "none", args |-> <<>>]
    /\ ret = Ok(None)
    /\ signed = <<>>
    /\ prevHash = [op |-> "none", args |-> <<>>, ret |-> Ok(None)]
    /\ heap = NoHeap

Init == InitCache /\ InitCalls

NextCache ==
    \/ \E t \in Threads, x \in Floats, places \in Places : CallFloatToDecimal(t, x, places)
    \/ \E t \in Threads : RLock(t)
    \/ \E t \in Threads : Lookup(t)
    \/ \E t \in Threads : RUnlock(t)
    \/ \E t \in Threads : ConvertStep(t)
    \/ \E t \in Threads : CheckLen(t)
    \/ \E t \in Threads : Lock(t)
    \/ \E t \in Threads : InsertStep(t)
    \/ \E t \in Threads : Unlock(t)
    \/ \E t \in Threads : Return(t)

SpecCache == Init /\ [][NextCache]_vars

\* the API calls, one after the other, from a freshly started process
InitCalled == Init /\ preloaded = 0

Next ==
    \/ ActionHashCall
    \/ SignL1ActionCall
    \/ SignUserSignedActionCall
    \/ SignUSDTransferActionCall
    \/ SignSpotTransferActionCall
    \/ SignWithdrawFromBridgeActionCall
    \/ SignUSDClassTransferActionCall
    \/ SignConvertToMultiSigUserActionCall
    \/ SignAgentActionCall
    \/ SignApproveBuilderFeeActionCall
    \/ SignOrderActionCall
    \/ SignBatchOrderActionCall
    \/ AddMultiSigTypesCall
    \/ AddMultiSigFieldsCall
    \/ SignMultiSigUserSignedActionPayloadCall
    \/ SignMultiSigL1ActionPayloadCall
    \/ SignMultiSigActionCall
    \/ CreateMultiSigActionCall
    \/ CreateUSDTransferActionCall
    \/ CreateSpotTransferActionCall
    \/ CreateWithdrawActionCall
    \/ CreateUSDClassTransferActionCall
    \/ CreateAgentActionCall
    \/ CreateApproveBuilderFeeActionCall
    \/ OrderTypeToWireCall
    \/ ValidateCall
    \/ OrderRequestToOrderWireCall
    \/ ModifyRequestToWireCall
    \/ VerifySignatureCall
    \/ TakeResult

Spec == InitCalled /\ [][Next]_vars

\* ActionHash called again and again, each digest compared with the one before
NextHash == ActionHashCall \/ KeepHash

SpecHash == InitCalled /\ [][NextHash]_vars

----------------------------------------------------------------------------
(* Properties                                                               *)

\* two results are the same: the same error, or numerically the same decimal
SameResult(a, b) ==
    /\ a.ok = b.ok
    /\ a.ok => DecimalEqual(a.val, b.val)
    /\ ~a.ok => a.err = b.err

\* C1: the conversion cache is transparent: whatever calls came before, a call
\* FloatToDecimal(x, places) returns what it returns on an empty cache, the same
\* decimal or the same precision-loss error.
CacheTransparent ==
    \A t \in Threads :
        pc[t] = "done" =>
            SameResult(loc[t].out,
                       FloatToDecimal(EmptyCache, 0, arg[t].x, arg[t].places).ret)

\* C2: ActionHash is deterministic: two calls in a row with the same action, vault
\* address and nonce return the same digest, whatever the order in which the map
\* of the action's fields is ranged over.
ActionHashDeterministic ==
    (call.op = "ActionHash" /\ prevHash.op = "ActionHash" /\ prevHash.args = call.args)
        => ret = prevHash.ret

SigningOps ==
    {"SignL1Action", "SignUserSignedAction", "SignUSDTransferAction", "SignSpotTransferAction",
     "SignWithdrawFromBridgeAction", "SignUSDClassTransferAction",
     "SignConvertToMultiSigUserAction", "SignAgentAction", "SignApproveBuilderFeeAction",
     "SignOrderAction", "SignBatchOrderAction", "SignMultiSigUserSignedActionPayload",
     "SignMultiSigL1ActionPayload", "SignMultiSigAction", "CreateMultiSigAction"}

UserSignedOps ==
    {"SignUserSignedAction", "SignUSDTransferAction", "SignSpotTransferAction",
     "SignWithdrawFromBridgeAction", "SignUSDClassTransferAction",
     "SignConvertToMultiSigUserAction", "SignAgentAction", "SignApproveBuilderFeeAction"}

AddressFields == {"destination", "agentAddress", "builder", "payloadMultiSigUser", "outerSigner"}

\* a non-empty text that is no hex address
BadAddress(s) == s # EmptyString /\ ~IsHexAddress(s)

\* the arguments of the call hold, in an address-bearing place, a text that is no
\* hex address
HasBadAddress(a) ==
    \/ /\ "action" \in DOMAIN a
       /\ \E f \in AddressFields \cap DOMAIN a.action :
            IsString(a.action[f]) /\ ~IsHexAddress(a.action[f].v)
    \/ "vaultAddress" \in DOMAIN a /\ BadAddress(a.vaultAddress)
    \/ "builder" \in DOMAIN a /\ BadAddress(a.builder)
    \/ "orderAction" \in DOMAIN a /\ BadAddress(a.orderAction.Builder)
    \/ "payloadMultiSigUser" \in DOMAIN a /\ ~IsHexAddress(a.payloadMultiSigUser)
    \/ "outerSigner" \in DOMAIN a /\ ~IsHexAddress(a.outerSigner)

\* C3: in every signing flow, a call one of whose address-bearing fields
\* (destination, vault, agent, builder, payloadMultiSigUser, outerSigner) is no
\* valid hex address returns the address error and never reaches wallet.SignMessage.
BadAddressNeverSigned ==
    (call.op \in SigningOps /\ HasBadAddress(call.args))
        => (~ret.ok /\ ret.err = ErrInvalidAddress /\ signed = <<>>)

\* the action has a field that its kind's field-type list does not name
HasExtraField(action, payloadTypes) ==
    DOMAIN action \ (TypeNames(payloadTypes) \cup {"signatureChainId", "hyperliquidChain"}) # {}

\* C4: a user-signed action with a field outside the field-type list of its kind
\* (the two injected fields aside) is rejected with an error, and nothing is handed
\* to wallet.SignMessage.
ExtraFieldRejected ==
    (call.op \in UserSignedOps /\ HasExtraField(call.args.action, call.args.payloadTypes))
        => (~ret.ok /\ signed = <<>>)

HasChain(signTypes) == \E i \in 1..Len(signTypes) : signTypes[i].Name = "hyperliquidChain"

FirstChain(signTypes) ==
    CHOOSE i \in 1..Len(signTypes) :
        /\ signTypes[i].Name = "hyperliquidChain"
        /\ \A j \in 1..(i - 1) : signTypes[j].Name # "hyperliquidChain"

\* the list with the two multi-sig fields right after its first hyperliquidChain
SplicedAfterFirstChain(signTypes) ==
    SubSeq(signTypes, 1, FirstChain(signTypes))
        \o MultiSigTypes
        \o SubSeq(signTypes, FirstChain(signTypes) + 1, Len(signTypes))

\* C5: for a field-type list with at least one hyperliquidChain, once or several
\* times, AddMultiSigTypes returns the list of length len+2 with payloadMultiSigUser
\* and outerSigner right after the first hyperliquidChain, the rest in order.
TypesSplicedAfterFirstChain ==
    (call.op = "AddMultiSigTypes" /\ HasChain(call.args.signTypes))
        => /\ ret.ok
           /\ Len(ret.val.SignatureTypes) = Len(call.args.signTypes) + 2
           /\ ret.val.SignatureTypes = SplicedAfterFirstChain(call.args.signTypes)

\* C6 as amended: for a field-type list with no hyperliquidChain, AddMultiSigTypes
\* returns ErrInvalidSignatureChain and no list; SignMultiSigUserSignedActionPayload
\* given such a list never reaches wallet.SignMessage and fails, with
\* ErrInvalidSignatureChain when payloadMultiSigUser and outerSigner are both hex
\* addresses and with ErrInvalidAddress when one of them is not.
MissingChainRejected ==
    /\ (call.op = "AddMultiSigTypes" /\ ~HasChain(call.args.signTypes))
            => (~ret.ok /\ ret.err = ErrInvalidSignatureChain /\ ret.val = None)
    /\ (call.op = "SignMultiSigUserSignedActionPayload" /\ ~HasChain(call.args.signTypes))
            => /\ signed = <<>>
               /\ ~ret.ok
               /\ ret.err = IF /\ IsHexAddress(call.args.payloadMultiSigUser)
                               /\ IsHexAddress(call.args.outerSigner)
                            THEN ErrInvalidSignatureChain
                            ELSE ErrInvalidAddress

\* a multi-sig payload call with two valid addresses and a non-empty list without
\* hyperliquidChain has failed on the list
MissingChainReached ==
    /\ call.op = "SignMultiSigUserSignedActionPayload"
    /\ Len(call.args.signTypes) > 0
    /\ ~HasChain(call.args.signTypes)
    /\ IsHexAddress(call.args.payloadMultiSigUser)
    /\ IsHexAddress(call.args.outerSigner)
    /\ ret.err = ErrInvalidSignatureChain
    /\ signed = <<>>

\* C6 as stated: for a field-type list with no hyperliquidChain, AddMultiSigTypes
\* returns ErrInvalidSignatureChain and no list, and
\* SignMultiSigUserSignedActionPayload fails with that same error, whatever its
\* other arguments, without reaching wallet.SignMessage.
MissingChainAlwaysChainError ==
    /\ (call.op = "AddMultiSigTypes" /\ ~HasChain(call.args.signTypes))
            => (~ret.ok /\ ret.err = ErrInvalidSignatureChain /\ ret.val = None)
    /\ (call.op = "SignMultiSigUserSignedActionPayload" /\ ~HasChain(call.args.signTypes))
            => (signed = <<>> /\ ~ret.ok /\ ret.err = ErrInvalidSignatureChain)

\* C7: under any interleaving of concurrent FloatToDecimal calls the conversion
\* cache never holds more than 1000 entries.
CacheWithinCap == CacheLen(cache, preloaded) <= CacheCap

\* C8: every access of FloatToDecimal to the cache's map is made with the lock held
\* in the matching mode (a lookup or a size check under the read or the write lock,
\* an insert under the write lock), and no read of the map is made while another
\* goroutine is inside its write section.
CacheAccessesLocked ==
    \A a \in accessLog :
        /\ a.kind = "insert" => a.held = "write"
        /\ a.kind \in {"lookup", "len"} => (a.held \in {"read", "write"} /\ ~a.writing)

\* the number of populated arms of an order type
Arms(orderType) ==
    (IF orderType.Limit # Nil THEN 1 ELSE 0) + (IF orderType.Trigger # Nil THEN 1 ELSE 0)

\* C9: OrderRequest.Validate and OrderTypeToWire reject an order type with neither
\* arm set and reject an order type with both arms set.
ExactlyOneArmAccepted ==
    /\ (call.op = "OrderRequest.Validate" /\ Arms(call.args.order.OrderType) # 1) => ~ret.ok
    /\ (call.op = "OrderTypeToWire" /\ Arms(call.args.orderType) # 1) => ~ret.ok

\* C10: every address in a payload handed to wallet.SignMessage is lower-case: an
\* address field of the signed message (destination, agentAddress, builder,
\* payloadMultiSigUser, outerSigner) holds no upper-case character.
SignedAddressesLowerCase ==
    \A i \in 1..Len(signed) :
        \A f \in AddressFields \cap DOMAIN signed[i].msgpack.message :
            IsString(signed[i].msgpack.message[f])
                => IsLowerCase(signed[i].msgpack.message[f].v)

\* the 20 bytes that the 40 hex digits of an address text stand for
RawAddressBytes(s) ==
    LET body == IF Has0xPrefix(s) THEN DropPrefix(s) ELSE s
    IN  [i \in 1..20 |-> 16 * HexVal(body[2 * i - 1]) + HexVal(body[2 * i])]

\* the bytes ActionHash is to append to the encoded action
HashSuffix(vaultAddress, nonce) ==
    BigEndian64(nonce)
        \o (IF vaultAddress = EmptyString THEN <<0>> ELSE <<1>> \o RawAddressBytes(vaultAddress))

\* C11: the bytes hashed by ActionHash are the encoding msgpack.Marshal gave for the
\* action, then the 8 big-endian bytes of the nonce, then the byte 0 when the vault
\* address is empty, or the byte 1 and the 20 raw address bytes otherwise: 9 bytes
\* more than the encoded action without a vault, 29 more with one.
HashedBytesLayout ==
    (call.op = "ActionHash" /\ ret.ok) =>
        \E data \in Marshal(Map(call.args.action)) :
            /\ ret.val.keccak256 = data \o HashSuffix(call.args.vaultAddress, call.args.nonce)
            /\ Len(ret.val.keccak256)
                 = Len(data) + (IF call.args.vaultAddress = EmptyString THEN 9 ELSE 29)

\* a digest was returned for an action with three fields and a vault address
HashedWithVault ==
    /\ call.op = "ActionHash"
    /\ ret.ok
    /\ call.args.vaultAddress = AddrLower
    /\ Cardinality(DOMAIN call.args.action) = 3
    /\ Len(ret.val.keccak256) > 29

\* C12: ActionHash with a non-empty vault address returns a digest for every text
\* that the address check accepts, and ErrInvalidAddress with no digest for every
\* other text; no text passes the check and then fails with another error.
VaultAddressAcceptedOrAddressError ==
    (call.op = "ActionHash" /\ call.args.vaultAddress # EmptyString) =>
        IF IsHexAddress(call.args.vaultAddress)
        THEN ret.ok
        ELSE ~ret.ok /\ ret.err = ErrInvalidAddress /\ ret.val = None

\* C13: for every action given to SignUserSignedAction, also one that already
\* holds signatureChainId or hyperliquidChain, the message handed to
\* wallet.SignMessage has signatureChainId "0x66eee" and hyperliquidChain "Mainnet"
\* or "Testnet" after isMainnet, and every other field of the caller's action
\* with its value.
InjectedFieldsFixed ==
    call.op \in UserSignedOps =>
        \A i \in 1..Len(signed) :
            LET message == signed[i].msgpack.message
                action == call.args.action
            IN  /\ DOMAIN message = DOMAIN action \cup {"signatureChainId", "hyperliquidChain"}
                /\ message["signatureChainId"] = Str(<<48, 120, 54, 54, 101, 101, 101>>)
                /\ message["hyperliquidChain"]
                     = Str(IF call.args.isMainnet
                           THEN <<77, 97, 105, 110, 110, 101, 116>>
                           ELSE <<84, 101, 115, 116, 110, 101, 116>>)
                /\ \A k \in DOMAIN action \ {"signatureChainId", "hyperliquidChain"} :
                        message[k] = action[k]

\* SignUserSignedAction has signed an action that came with its own hyperliquidChain
InjectedOverCallerValue ==
    /\ call.op = "SignUserSignedAction"
    /\ "hyperliquidChain" \in DOMAIN call.args.action
    /\ Len(signed) = 1
    /\ signed[1].msgpack.message["hyperliquidChain"] # call.args.action["hyperliquidChain"]

\* C14: in every signing flow one call hands at most one buffer to
\* wallet.SignMessage: exactly one when validation, hashing and encoding succeed,
\* none when one of them fails; the error of a failed step, the wallet's own
\* included, is what the call returns, and the wallet is not asked again.
SignMessageAtMostOnce ==
    call.op \in SigningOps =>
        /\ Len(signed) <= 1
        /\ ret.ok => Len(signed) = 1
        /\ Len(signed) = 0 <=> (~ret.ok /\ ret.err # "wallet")
        /\ (Len(signed) = 1 /\ call.args.wallet = "refuses") => (~ret.ok /\ ret.err = "wallet")
        /\ (Len(signed) = 1 /\ call.args.wallet = "signs") => ret.ok

\* the wallet has refused in a multi-sig call that reached it: one buffer, its error returned
WalletRefusedOnce ==
    /\ call.op = "SignMultiSigAction"
    /\ call.args.wallet = "refuses"
    /\ Len(signed) = 1
    /\ ret.err = "wallet"

\* a text that is 0x or 0X and then an even number of hex digits
IsHexText(t) ==
    /\ Len(t) >= 2
    /\ t[1] = 48
    /\ t[2] \in {120, 88}
    /\ Len(t) % 2 = 0
    /\ \A i \in 3..Len(t) : IsHexChar(t[i])

\* the number of bytes a hex text stands for
HexTextBytes(t) == (Len(t) - 2) \div 2

\* C15: VerifySignature returns (false, nil) only when a key was recovered from
\* the signature and its address is not the expected one; an expected address
\* that is no hex address, an R or S that is no valid hex, and a signature from
\* which no key is recovered each yield an error.
VerifyNeverSilentlyFalse ==
    call.op = "VerifySignature" =>
        LET a == call.args
            recovered ==
                /\ IsHexText(a.sig.R)
                /\ IsHexText(a.sig.S)
                /\ HexTextBytes(a.sig.R) + HexTextBytes(a.sig.S) + 1 = 65
                /\ a.sig.V < 4
                /\ a.key # <<>>
        IN  /\ (ret.ok /\ ret.val = Bool(FALSE))
                => (IsHexAddress(a.address) /\ recovered /\ a.key # RawAddressBytes(a.address))
            /\ (~IsHexAddress(a.address) \/ ~IsHexText(a.sig.R) \/ ~IsHexText(a.sig.S) \/ ~recovered)
                => ~ret.ok

\* a well-formed signature whose key is not the expected address was reported false
VerifiedFalse ==
    /\ call.op = "VerifySignature"
    /\ ret.ok
    /\ ret.val = Bool(FALSE)
    /\ call.args.key = Rep(20, 187)

\* the float that the text of a decimal parses back to
ParsedBack(d) ==
    Float(d.neg, d.whole, d.frac * 10 ^ (DefaultDecimalPlaces - d.places), 0)

\* the decimal is unchanged by writing it, parsing it back and rounding it again
RoundsToItself(d, places) ==
    /\ TrimZeros(d.frac, d.places).digits <= places
    /\ Convert(ParsedBack(d), places).ok
    /\ DecimalEqual(Convert(ParsedBack(d), places).val, d)

\* C16: for |x| < 10^6 and places 6 or 8, after any earlier conversions,
\* FloatToDecimal(x, places) fails with ErrPrecisionLoss or returns a decimal that
\* has at most places fractional digits and that, parsed back and rounded again to
\* places digits, gives the same text.
ConversionIdempotent ==
    \A t \in Threads :
        (pc[t] = "done" /\ AbsBelowMax(arg[t].x)) =>
            IF loc[t].out.ok
            THEN RoundsToItself(loc[t].out.val, arg[t].places)
            ELSE loc[t].out.err = ErrPrecisionLoss

\* the operations that are given the caller's field-map action
FieldMapOps == {"SignUserSignedAction", "AddMultiSigFields", "SignMultiSigUserSignedActionPayload", "SignMultiSigAction", "CreateMultiSigAction"}

\* the fields these operations write into the maps they build
WrittenFields == {"signatureChainId", "hyperliquidChain", "payloadMultiSigUser", "outerSigner"}

\* C17: after SignUserSignedAction, AddMultiSigFields, SignMultiSigUserSignedActionPayload,
\* SignMultiSigAction or CreateMultiSigAction has returned, with or without an error, the
\* caller's action map has the keys and the values it had before the call: none of
\* signatureChainId, hyperliquidChain, payloadMultiSigUser, outerSigner was added to it
\* and its "type" key was not removed.
ActionMapUnchanged ==
    call.op \in FieldMapOps =>
        /\ "action" \in DOMAIN heap
        /\ DOMAIN heap["action"] = DOMAIN call.args.action
        /\ \A k \in DOMAIN call.args.action : heap["action"][k] = call.args.action[k]
        /\ \A k \in WrittenFields : k \in DOMAIN heap["action"] => k \in DOMAIN call.args.action
        /\ "type" \in DOMAIN call.args.action => "type" \in DOMAIN heap["action"]

\* a multi-sig payload was signed: the copies hold the four written fields, and the
\* caller's map, which had none of them, was the source of the copies
CopiesWrittenTo ==
    /\ call.op = "SignMultiSigUserSignedActionPayload"
    /\ ret.ok
    /\ WrittenFields \cap DOMAIN call.args.action = {}
    /\ {"payloadMultiSigUser", "outerSigner"} \subseteq DOMAIN heap["result"]
    /\ WrittenFields \subseteq DOMAIN heap["actionCopy"]
    /\ \A k \in DOMAIN call.args.action : heap["actionCopy"][k] = call.args.action[k]

\* int64(i) for an int i: the same number in 64 bits
ToInt64(i) ==
    IF Len(i) = 4 THEN i
    ELSE i \o (IF IsNegativeInt(i) THEN <<65535, 65535>> ELSE <<0, 0>>)

\* C18: ModifyRequestToWire returns a ModifyWire only for a request whose OrderID is
\* strictly positive, and the OrderID it returns is the number the request had; a
\* request with a Cloid and OrderID 0, and a request with a negative OrderID, end in
\* an error.
ModifyWireKeepsPositiveID ==
    call.op = "ModifyRequestToWire" =>
        LET req == call.args.req
        IN  /\ ret.ok => /\ ~IsNegativeInt(req.OrderID) /\ ~IsZeroInt(req.OrderID)
                          /\ ToInt64(ret.val.OrderID) = req.OrderID
            /\ (req.Cloid # Nil /\ IsZeroInt(req.OrderID)) \/ IsNegativeInt(req.OrderID)
                    => ~ret.ok

====
